---- MODULE Spec2Model ----
(***************************************************************************)
(* Model of linkify's UrlScanner (src/src/url.rs).                         *)
(*                                                                         *)
(* A text is a sequence of Unicode scalar values (code points).  Offsets   *)
(* are byte offsets into the UTF-8 encoding of the text, as in Rust's      *)
(* &str: a scalar value c occupies LenUtf8(c) bytes.  Option<usize> is     *)
(* modelled as a sequence of length 0 (None) or 1 (Some(x)).               *)
(***************************************************************************)
EXTENDS Integers, Sequences, FiniteSets, TLC

VARIABLES text, trigger, trigger_index, pc, result, parent

vars == <<text, trigger, trigger_index, pc, result, parent>>

\* Bound on the number of characters before plus after the separator region
\* of the enumerated texts.
MaxLen == 4

(***************************************************************************)
(* UTF-8 strings                                                           *)
(***************************************************************************)

\* char::len_utf8
LenUtf8(c) ==
    IF c < 128 THEN 1
    ELSE IF c < 2048 THEN 2
    ELSE IF c < 65536 THEN 3
    ELSE 4

\* str::len: the length of a text in bytes
RECURSIVE ByteLen(_)
ByteLen(s) ==
    IF Len(s) = 0 THEN 0
    ELSE LenUtf8(s[Len(s)]) + ByteLen(SubSeq(s, 1, Len(s) - 1))

\* char_indices: byte offset of the k-th character (1-based) of s
OffsetOf(s, k) == ByteLen(SubSeq(s, 1, k - 1))

\* str::is_char_boundary
IsCharBoundary(s, b) == \E k \in 0..Len(s) : ByteLen(SubSeq(s, 1, k)) = b

\* number of characters that lie before byte offset b (b a char boundary)
CharsBefore(s, b) == CHOOSE k \in 0..Len(s) : ByteLen(SubSeq(s, 1, k)) = b

\* &s[a..b] for char boundaries a <= b
Slice(s, a, b) == SubSeq(s, CharsBefore(s, a) + 1, CharsBefore(s, b))

\* str::starts_with
StartsWith(s, p) == Len(s) >= Len(p) /\ SubSeq(s, 1, Len(p)) = p

None == <<>>
Some(x) == <<x>>

NoMatch == [kind |-> "None", start |-> 0, end |-> 0]
Panic == [kind |-> "Panic", start |-> 0, end |-> 0]
Range(s, e) == [kind |-> "Some", start |-> s, end |-> e]

(***************************************************************************)
(* UrlScanner::find_start                                                  *)
(***************************************************************************)

\* mutant: '.' is put in the digit arm
SchemeClassDotDigit(c) ==
    IF (c >= 97 /\ c <= 122) \/ (c >= 65 /\ c <= 90) THEN "letter"
    ELSE IF (c >= 48 /\ c <= 57) \/ c = 46 THEN "digit"
    ELSE IF c \in {43, 45} THEN "special"
    ELSE "other"

\* the match arms of find_start's loop
SchemeClass(c) ==
    IF (c >= 97 /\ c <= 122) \/ (c >= 65 /\ c <= 90) THEN "letter"
    ELSE IF c >= 48 /\ c <= 57 THEN "digit"
    ELSE IF c \in {43, 45, 46} THEN "special"
    ELSE "other"

\* for (i, c) in s.char_indices().rev(): k is the 1-based position of the
\* next character to visit, first and digit the loop's Option variables.
RECURSIVE FindStartLoop(_, _, _, _)
FindStartLoop(s, k, first, digit) ==
    IF k = 0 THEN <<first, digit>>
    ELSE LET c == s[k]
             i == OffsetOf(s, k)
             cls == SchemeClass(c)
         IN  IF cls = "letter" THEN FindStartLoop(s, k - 1, Some(i), digit)
             ELSE IF cls = "digit" THEN FindStartLoop(s, k - 1, first, Some(i))
             ELSE IF cls = "special" THEN FindStartLoop(s, k - 1, first, digit)
             ELSE <<first, digit>>

\* mutant: the protocol-relative case does not test the trigger
FindStartAnyTrigger(s, trig) ==
    IF Len(s) = 0 THEN Some(0)
    ELSE LET r == FindStartLoop(s, Len(s), None, None)
             first == r[1]
             digit == r[2]
         IN  IF first # None /\ digit # None
                /\ first[1] > 0 /\ first[1] - 1 = digit[1]
             THEN None
             ELSE first

FindStart(s, trig) ==
    IF Len(s) = 0 /\ trig = 47 THEN Some(0)
    ELSE LET r == FindStartLoop(s, Len(s), None, None)
             first == r[1]
             digit == r[2]
         IN  IF first # None /\ digit # None
                /\ first[1] > 0 /\ first[1] - 1 = digit[1]
             THEN None
             ELSE first

(***************************************************************************)
(* UrlScanner::find_end                                                    *)
(***************************************************************************)

\* mutant: the space is missing from the list
NeverInUrlNoSpace(c) ==
    \/ c >= 0 /\ c <= 31
    \/ c \in {34, 60, 62, 96}
    \/ c >= 127 /\ c <= 159

\* the first match arm: characters that can never be part of a URL
NeverInUrl(c) ==
    \/ c >= 0 /\ c <= 31
    \/ c \in {32, 34, 60, 62, 96}
    \/ c >= 127 /\ c <= 159

\* mutant: a '/' may always end a URL
SlashAlwaysLast(previous_can_be_last) == TRUE

\* the '/' arm: may end a URL only if the previous character could
SlashCanBeLast(previous_can_be_last) == previous_can_be_last

\* mutant: the balance test is off by one
CloserBreaksLate(count) == count < -1

\* the closing-bracket arms: "if round < 0 { break; }" on the decremented counter
CloserBreaks(count) == count < 0

\* mutant: a single quote is treated like any other character
QuoteAlwaysLast(single_quote) == TRUE

\* the '\'' arm: the value of the arm, from the toggled flag
QuoteCanBeLast(single_quote) == ~single_quote

\* mutant: the end advances by one byte whatever the character's width
BestEndOneByte(i, c) == i + 1

\* end = Some(i + c.len_utf8())
BestEnd(i, c) == i + LenUtf8(c)

\* The match on c: from the loop state st, the updated counters and flag,
\* whether the loop breaks (brk) and otherwise the value of can_be_last.
Classify(c, st) ==
    LET keep == [round |-> st.round, square |-> st.square, curly |-> st.curly,
                 single_quote |-> st.single_quote,
                 brk |-> FALSE, can_be_last |-> TRUE]
    IN  IF NeverInUrl(c) THEN [keep EXCEPT !.brk = TRUE]
        ELSE IF c \in {63, 33, 46, 44, 58, 59} THEN [keep EXCEPT !.can_be_last = FALSE]
        ELSE IF c = 47 THEN [keep EXCEPT !.can_be_last = SlashCanBeLast(st.previous_can_be_last)]
        ELSE IF c = 40 THEN [keep EXCEPT !.round = @ + 1, !.can_be_last = FALSE]
        ELSE IF c = 41 THEN [keep EXCEPT !.round = @ - 1, !.brk = CloserBreaks(st.round - 1)]
        ELSE IF c = 91 THEN [keep EXCEPT !.square = @ + 1, !.can_be_last = FALSE]
        ELSE IF c = 93 THEN [keep EXCEPT !.square = @ - 1, !.brk = CloserBreaks(st.square - 1)]
        ELSE IF c = 123 THEN [keep EXCEPT !.curly = @ + 1, !.can_be_last = FALSE]
        ELSE IF c = 125 THEN [keep EXCEPT !.curly = @ - 1, !.brk = CloserBreaks(st.curly - 1)]
        ELSE IF c = 39 THEN [keep EXCEPT !.single_quote = ~st.single_quote,
                                         !.can_be_last = QuoteCanBeLast(~st.single_quote)]
        ELSE keep

\* for (i, c) in s.char_indices(): k is the 1-based position of the next
\* character to visit, st the loop's variables.
RECURSIVE FindEndLoop(_, _, _)
FindEndLoop(s, k, st) ==
    IF k > Len(s) THEN st.end
    ELSE LET c == s[k]
             i == OffsetOf(s, k)
             m == Classify(c, st)
         IN  IF m.brk THEN st.end
             ELSE FindEndLoop(s, k + 1,
                    [round |-> m.round, square |-> m.square, curly |-> m.curly,
                     single_quote |-> m.single_quote,
                     previous_can_be_last |-> m.can_be_last,
                     end |-> IF m.can_be_last THEN Some(BestEnd(i, c))
                             ELSE st.end])

FindEndInit ==
    [round |-> 0, square |-> 0, curly |-> 0, single_quote |-> FALSE,
     previous_can_be_last |-> TRUE, end |-> None]

FindEnd(s) == FindEndLoop(s, 1, FindEndInit)

(***************************************************************************)
(* Scanner::scan for UrlScanner                                            *)
(***************************************************************************)

\* match self.trigger: the separator and its length
Proto(trig) == IF trig = 47 THEN <<47, 47>> ELSE <<58, 47, 47>>
\* mutant: the offset of "://" is taken to be 2
ProtoOffsetTwo(trig) == 2

ProtoOffset(trig) == IF trig = 47 THEN 2 ELSE 3

\* mutant: the end is counted from the trigger instead of from the separator's end
ScanEndFromTrigger(s, trig, ti) ==
    LET proto == Proto(trig)
        after_slash_slash == ti + ProtoOffset(trig)
    IN  IF after_slash_slash < ByteLen(s)
        THEN IF ~IsCharBoundary(s, ti) THEN Panic
             ELSE IF StartsWith(Slice(s, ti, ByteLen(s)), proto)
             THEN LET start == FindStart(Slice(s, 0, ti), trig)
                  IN  IF start # None
                      THEN LET end == FindEnd(Slice(s, after_slash_slash, ByteLen(s)))
                           IN  IF end # None
                               THEN Range(start[1], ti + end[1])
                               ELSE NoMatch
                      ELSE NoMatch
             ELSE NoMatch
        ELSE NoMatch

Scan(s, trig, ti) ==
    LET proto == Proto(trig)
        after_slash_slash == ti + ProtoOffset(trig)
    IN  IF after_slash_slash < ByteLen(s)
        THEN IF ~IsCharBoundary(s, ti) THEN Panic
             ELSE IF StartsWith(Slice(s, ti, ByteLen(s)), proto)
             THEN LET start == FindStart(Slice(s, 0, ti), trig)
                  IN  IF start # None
                      THEN LET end == FindEnd(Slice(s, after_slash_slash, ByteLen(s)))
                           IN  IF end # None
                               THEN Range(start[1], after_slash_slash + end[1])
                               ELSE NoMatch
                      ELSE NoMatch
             ELSE NoMatch
        ELSE NoMatch

(***************************************************************************)
(* Inputs                                                                  *)
(***************************************************************************)

\* sequences over A of length at most n
SeqsUpTo(A, n) == UNION {[1..k -> A] : k \in 0..n}

\* the two configured triggers, ':' and '/'
Triggers == {58, 47}

\* a letter, a digit, '.', and a two-byte character that is no scheme character
PrefixAlphabet == {97, 49, 46, 233}

\* 'x' '/' '.' '(' ')' ']' '\'' ' ' and a two-byte character
SuffixAlphabet == {120, 47, 46, 40, 41, 93, 39, 32, 233}

\* what stands at the trigger: ":", ":/", "://", "//"
Middles == {<<58>>, <<58, 47>>, <<58, 47, 47>>, <<47, 47>>}

ExampleTexts ==
    {
      \* 'a://(x))y'
      <<97, 58, 47, 47, 40, 120, 41, 41, 121>>,
      \* '1abc://x'
      <<49, 97, 98, 99, 58, 47, 47, 120>>,
      \* '12abc://x'
      <<49, 50, 97, 98, 99, 58, 47, 47, 120>>,
      \* '.abc://x'
      <<46, 97, 98, 99, 58, 47, 47, 120>>,
      \* 'see (http://example.com)'
      <<115, 101, 101, 32, 40, 104, 116, 116, 112, 58, 47, 47, 101, 120, 97, 109, 112, 108, 101, 46, 99, 111, 109, 41>>,
      \* 'see http://example.com/a)'
      <<115, 101, 101, 32, 104, 116, 116, 112, 58, 47, 47, 101, 120, 97, 109, 112, 108, 101, 46, 99, 111, 109, 47, 97, 41>>,
      \* 'http://example.com a'
      <<104, 116, 116, 112, 58, 47, 47, 101, 120, 97, 109, 112, 108, 101, 46, 99, 111, 109, 32, 97>>,
      \* "'http://example.com'"
      <<39, 104, 116, 116, 112, 58, 47, 47, 101, 120, 97, 109, 112, 108, 101, 46, 99, 111, 109, 39>>,
      \* "http://example.com/don't"
      <<104, 116, 116, 112, 58, 47, 47, 101, 120, 97, 109, 112, 108, 101, 46, 99, 111, 109, 47, 100, 111, 110, 39, 116>>,
      \* '//example.org/path'
      <<47, 47, 101, 120, 97, 109, 112, 108, 101, 46, 111, 114, 103, 47, 112, 97, 116, 104>>,
      \* 'a://x"y'
      <<97, 58, 47, 47, 120, 34, 121>>,
      \* 'a://x<y>'
      <<97, 58, 47, 47, 120, 60, 121, 62>>,
      \* 'a://x>y'
      <<97, 58, 47, 47, 120, 62, 121>>,
      \* 'a://x`y'
      <<97, 58, 47, 47, 120, 96, 121>>,
      \* 'a://x\x00y'
      <<97, 58, 47, 47, 120, 0, 121>>,
      \* 'a://x\x1fy'
      <<97, 58, 47, 47, 120, 31, 121>>,
      \* 'a://x\x7fy'
      <<97, 58, 47, 47, 120, 127, 121>>,
      \* 'a://x\x85y'
      <<97, 58, 47, 47, 120, 133, 121>>,
      \* 'a://x\x9fy'
      <<97, 58, 47, 47, 120, 159, 121>>,
      \* 'a://x\xa0y'
      <<97, 58, 47, 47, 120, 160, 121>>,
      \* 'Z+-.9a://x'
      <<90, 43, 45, 46, 57, 97, 58, 47, 47, 120>>,
      \* 'a://[::1]/'
      <<97, 58, 47, 47, 91, 58, 58, 49, 93, 47>>,
      \* 'a://x{y}}'
      <<97, 58, 47, 47, 120, 123, 121, 125, 125>>,
      \* 'a://x?y!,;:'
      <<97, 58, 47, 47, 120, 63, 121, 33, 44, 59, 58>>,
      \* '\u20aca://\U0001f600.'
      <<8364, 97, 58, 47, 47, 128512, 46>>
    }

\* byte offsets of s at which the character trig occurs
TriggerOffsets(s, trig) == {OffsetOf(s, k) : k \in {j \in 1..Len(s) : s[j] = trig}}

NoParent == [text |-> <<>>, trigger_index |-> 0, result |-> NoMatch, set |-> FALSE]

Init ==
    /\ \/ \E p \in SeqsUpTo(PrefixAlphabet, MaxLen), m \in Middles :
            \E q \in SeqsUpTo(SuffixAlphabet, MaxLen - Len(p)) :
                text = p \o m \o q
       \/ text \in ExampleTexts
    /\ trigger \in Triggers
    /\ trigger_index \in TriggerOffsets(text, trigger)
    /\ pc = "ready"
    /\ result = NoMatch
    /\ parent = NoParent

\* one call scan(text, trigger_index)
ScanCall ==
    /\ pc = "ready"
    /\ result' = Scan(text, trigger, trigger_index)
    /\ pc' = "done"
    /\ UNCHANGED <<text, trigger, trigger_index, parent>>

\* the caller extracts the matched substring and scans it again, with the
\* trigger at its shifted position
Rescan ==
    /\ pc = "done"
    /\ ~parent.set
    /\ result.kind = "Some"
    /\ parent' = [text |-> text, trigger_index |-> trigger_index,
                  result |-> result, set |-> TRUE]
    /\ IF /\ result.start <= result.end
          /\ IsCharBoundary(text, result.start)
          /\ IsCharBoundary(text, result.end)
       THEN /\ text' = Slice(text, result.start, result.end)
            /\ trigger_index' = trigger_index - result.start
            /\ pc' = "ready"
       ELSE \* slicing off a character boundary or backwards panics
            /\ pc' = "panicked"
            /\ UNCHANGED <<text, trigger_index>>
    /\ UNCHANGED <<trigger, result>>

Next == ScanCall \/ Rescan

Spec == Init /\ [][Next]_vars

TypeOK ==
    /\ pc \in {"ready", "done", "panicked"}
    /\ result.kind \in {"None", "Some", "Panic"}
    /\ trigger \in Triggers

(***************************************************************************)
(* Vocabulary of the properties, stated on the text itself                 *)
(***************************************************************************)

Done == pc = "done"
Matched == pc = "done" /\ result.kind = "Some"

IsLetter(c) == c \in 65..90 \/ c \in 97..122
IsDigit(c) == c \in 48..57
IsSchemeChar(c) == IsLetter(c) \/ IsDigit(c) \/ c \in {43, 45, 46}

Min(S) == CHOOSE x \in S : \A y \in S : x <= y
Max(S) == CHOOSE x \in S : \A y \in S : x >= y

\* number of positions 1..n of r that hold the character c
Count(r, n, c) == Cardinality({j \in 1..n : r[j] = c})

\* length of the separator of the configured variant
SepLen == IF trigger = 58 THEN 3 ELSE 2

\* 1-based position of the trigger character
TriggerPos == CharsBefore(text, trigger_index) + 1

\* the separator stands at the trigger and a character follows it
SepPresent ==
    /\ trigger_index + SepLen < ByteLen(text)
    /\ TriggerPos + SepLen - 1 <= Len(text)
    /\ IF trigger = 58
       THEN text[TriggerPos] = 58 /\ text[TriggerPos + 1] = 47
            /\ text[TriggerPos + 2] = 47
       ELSE text[TriggerPos] = 47 /\ text[TriggerPos + 1] = 47

\* the characters before the trigger, and those after the separator
Pre == SubSeq(text, 1, TriggerPos - 1)
Rest == SubSeq(text, TriggerPos + SepLen, Len(text))

\* the characters of the returned span, and of its part after the separator
SpanChars == Slice(text, result.start, result.end)
SpanTail == Slice(text, trigger_index + SepLen, result.end)

\* positions of Pre in the unbroken run of scheme characters that ends at the
\* trigger, and the letters among them
SchemeRun(p) == {k \in 1..Len(p) : \A j \in k..Len(p) : IsSchemeChar(p[j])}
SchemeLetters(p) == {k \in SchemeRun(p) : IsLetter(p[k])}

(***************************************************************************)
(* C1                                                                      *)
(***************************************************************************)

\* C1: a returned span (start, end) satisfies
\* 0 <= start <= triggerIndex < end <= length(text) in bytes, and start and
\* end are character boundaries of the text.
C1_SpanWithinText ==
    Matched =>
        /\ 0 <= result.start
        /\ result.start <= trigger_index
        /\ trigger_index < result.end
        /\ result.end <= ByteLen(text)
        /\ IsCharBoundary(text, result.start)
        /\ IsCharBoundary(text, result.end)

\* a match strictly inside a text, whose last character is two bytes wide
C1_Witness ==
    /\ Matched
    /\ ~parent.set
    /\ result.start > 0
    /\ result.end < ByteLen(text)
    /\ SpanChars[Len(SpanChars)] >= 128
    /\ Pre[1] >= 128

(***************************************************************************)
(* C2                                                                      *)
(***************************************************************************)

\* C2: the character just before a returned span is never an ASCII digit,
\* and "1abc://x" scanned at its ':' yields no match.
C2_NoDigitBeforeScheme ==
    /\ (Matched /\ result.start > 0)
          => ~IsDigit(text[CharsBefore(text, result.start)])
    /\ (Done /\ text = <<49, 97, 98, 99, 58, 47, 47, 120>>
             /\ trigger = 58 /\ trigger_index = 4)
          => result = NoMatch

(***************************************************************************)
(* C3                                                                      *)
(***************************************************************************)

\* C3 as stated: ".abc://x" scanned at its ':' matches from the '.', offset 0.
C3_MatchStartsAtDot ==
    (Done /\ text = <<46, 97, 98, 99, 58, 47, 47, 120>>
          /\ trigger = 58 /\ trigger_index = 4)
       => (result.kind = "Some" /\ result.start = 0)

\* C3 amended: ".abc://x" scanned at its ':' matches from the 'a', offsets
\* 1..8; and whenever the separator is present, the rest has an end and the
\* leftmost letter of the scheme run is directly preceded by '.', the scan
\* matches and the match starts at that letter.
C3_DotSeparatesScheme ==
    /\ (Done /\ text = <<46, 97, 98, 99, 58, 47, 47, 120>>
             /\ trigger = 58 /\ trigger_index = 4)
          => result = Range(1, 8)
    /\ (Done /\ SepPresent /\ FindEnd(Rest) # None /\ SchemeLetters(Pre) # {})
          => LET f == Min(SchemeLetters(Pre))
             IN  (f > 1 /\ Pre[f - 1] = 46)
                    => (result.kind = "Some" /\ result.start = OffsetOf(text, f))

C3_Witness ==
    /\ Done
    /\ text = <<46, 97, 98, 99, 58, 47, 47, 120>>
    /\ trigger = 58 /\ trigger_index = 4
    /\ result.kind = "Some"

(***************************************************************************)
(* C4                                                                      *)
(***************************************************************************)

\* C4: when the separator is not at the trigger, or nothing follows it, the
\* scan returns no match; it never aborts.
C4_SeparatorRequired ==
    Done => /\ result.kind # "Panic"
            /\ ~SepPresent => result = NoMatch

\* a scheme is there but the separator is cut short: "a:/x", "a://"
C4_Witness ==
    /\ Done
    /\ trigger = 58
    /\ ~SepPresent
    /\ SchemeLetters(Pre) # {}
    /\ TriggerPos + 1 <= Len(text) /\ text[TriggerPos + 1] = 47
    /\ result = NoMatch

(***************************************************************************)
(* The forward scan, stated on the text                                    *)
(***************************************************************************)

IsCloser(c) == c \in {41, 93, 125}
OpenerOf(c) == IF c = 41 THEN 40 ELSE IF c = 93 THEN 91 ELSE 123

\* control characters, space, '"', '<', '>', backtick
Disallowed(c) == c \in 0..31 \/ c \in {32, 34, 60, 62, 96} \/ c \in 127..159

\* position k of r holds a closing bracket that no opener of its kind among
\* the positions before it is left to match
Unmatched(r, k) ==
    IsCloser(r[k]) /\ Count(r, k, r[k]) > Count(r, k, OpenerOf(r[k]))

\* the position of the first stop condition in r, Len(r) + 1 if there is none
StopPos(r) ==
    Min({k \in 1..Len(r) : Disallowed(r[k]) \/ Unmatched(r, k)} \union {Len(r) + 1})

\* Whether the character at position k of r, scanned before any stop
\* condition, may end a URL; quoteRule says whether single quotes follow the
\* even-count rule or count as any other character.
RECURSIVE Eligible(_, _, _)
Eligible(r, k, quoteRule) ==
    IF r[k] \in {63, 33, 46, 44, 58, 59, 40, 91, 123} THEN FALSE
    ELSE IF r[k] = 47 THEN k = 1 \/ Eligible(r, k - 1, quoteRule)
    ELSE IF r[k] = 39 /\ quoteRule THEN Count(r, k, 39) % 2 = 0
    ELSE TRUE

EligiblePositions(r, quoteRule) ==
    {k \in 1..(StopPos(r) - 1) : Eligible(r, k, quoteRule)}

\* one past the last eligible character before the first stop condition
LastEligibleEnd(r, quoteRule) ==
    LET E == EligiblePositions(r, quoteRule)
    IN  IF E = {} THEN None
        ELSE Some(OffsetOf(r, Max(E)) + LenUtf8(r[Max(E)]))

(***************************************************************************)
(* C5                                                                      *)
(***************************************************************************)

TextParens == <<115, 101, 101, 32, 40, 104, 116, 116, 112, 58, 47, 47, 101, 120, 97, 109, 112, 108, 101, 46, 99, 111, 109, 41>>
TextUnmatched == <<115, 101, 101, 32, 104, 116, 116, 112, 58, 47, 47, 101, 120, 97, 109, 112, 108, 101, 46, 99, 111, 109, 47, 97, 41>>

\* C5: in the part of a returned span after the separator every prefix has at
\* least as many openers as closers of each bracket kind; the span ends at or
\* before the first closer left unmatched after the separator; both example
\* texts end before their ')'.
C5_BracketBalance ==
    /\ Matched =>
          /\ \A n \in 1..Len(SpanTail) : \A c \in {41, 93, 125} :
                Count(SpanTail, n, c) <= Count(SpanTail, n, OpenerOf(c))
          /\ \A k \in 1..Len(Rest) :
                Unmatched(Rest, k)
                   => result.end <= trigger_index + SepLen + OffsetOf(Rest, k)
    /\ (Done /\ text = TextParens /\ trigger = 58 /\ trigger_index = 9)
          => result = Range(5, 23)
    /\ (Done /\ text = TextUnmatched /\ trigger = 58 /\ trigger_index = 8)
          => result = Range(4, 24)

\* a match that holds a matched pair and ends right before an unmatched ')'
C5_Witness ==
    /\ Matched
    /\ ~parent.set
    /\ \E k \in 1..Len(SpanTail) : SpanTail[k] = 41
    /\ Len(Rest) > Len(SpanTail)
    /\ Rest[Len(SpanTail) + 1] = 41
    /\ Unmatched(Rest, Len(SpanTail) + 1)

(***************************************************************************)
(* C6                                                                      *)
(***************************************************************************)

TextSpace == <<104, 116, 116, 112, 58, 47, 47, 101, 120, 97, 109, 112, 108, 101, 46, 99, 111, 109, 32, 97>>

\* C6: a returned span holds no disallowed character and ends at or before
\* the first disallowed character after the separator; "http://example.com a"
\* ends before the space.
C6_NoDisallowedCharacter ==
    /\ Matched =>
          /\ \A k \in 1..Len(SpanChars) : ~Disallowed(SpanChars[k])
          /\ \A k \in 1..Len(Rest) :
                Disallowed(Rest[k])
                   => result.end <= trigger_index + SepLen + OffsetOf(Rest, k)
    /\ (Done /\ text = TextSpace /\ trigger = 58 /\ trigger_index = 4)
          => result = Range(0, 18)

\* a match cut short by a space that more text follows
C6_Witness ==
    /\ Matched
    /\ ~parent.set
    /\ Len(Rest) > Len(SpanTail) + 1
    /\ Rest[Len(SpanTail) + 1] = 32
    /\ ~Disallowed(Rest[Len(SpanTail) + 2])

(***************************************************************************)
(* C7                                                                      *)
(***************************************************************************)

TextQuoted == <<39, 104, 116, 116, 112, 58, 47, 47, 101, 120, 97, 109, 112, 108, 101, 46, 99, 111, 109, 39>>

\* C7: a returned span ends with a single quote only if the single quotes
\* after the separator, up to and including that one, are even in number; in
\* "'http://example.com'" the trailing quote is left out.
C7_QuoteParity ==
    /\ (Matched /\ SpanTail[Len(SpanTail)] = 39)
          => Count(SpanTail, Len(SpanTail), 39) % 2 = 0
    /\ (Done /\ text = TextQuoted /\ trigger = 58 /\ trigger_index = 5)
          => result = Range(1, 19)

\* a match that ends with the second of two single quotes
C7_Witness ==
    /\ Matched
    /\ ~parent.set
    /\ SpanTail[Len(SpanTail)] = 39
    /\ Count(SpanTail, Len(SpanTail), 39) = 2

(***************************************************************************)
(* C8                                                                      *)
(***************************************************************************)

TextRelative == <<47, 47, 101, 120, 97, 109, 112, 108, 101, 46, 111, 114, 103, 47, 112, 97, 116, 104>>

\* C8: with the slash variant at offset 0, a text that begins with "//" and
\* then holds a character eligible to end a URL before any stop condition is
\* matched from offset 0; a match that starts at the trigger occurs in no
\* other situation, and the colon variant at offset 0 never matches.
C8_ProtocolRelative ==
    /\ (Done /\ trigger = 47 /\ trigger_index = 0 /\ SepPresent
             /\ EligiblePositions(Rest, TRUE) # {})
          => (result.kind = "Some" /\ result.start = 0)
    /\ (Matched /\ result.start = trigger_index)
          => (trigger = 47 /\ trigger_index = 0)
    /\ (Done /\ trigger = 58 /\ trigger_index = 0) => result = NoMatch
    /\ (Done /\ text = TextRelative /\ trigger = 47 /\ trigger_index = 0)
          => result = Range(0, 18)

C8_Witness ==
    /\ Matched
    /\ ~parent.set
    /\ trigger = 47
    /\ trigger_index = 0
    /\ result.start = 0
    /\ result.end < ByteLen(text)

(***************************************************************************)
(* C9                                                                      *)
(***************************************************************************)

\* the last character of a returned span is none of ? ! . , : ; ( [ {
SpanEndsProperly ==
    Matched => ~(SpanChars[Len(SpanChars)] \in {63, 33, 46, 44, 58, 59, 40, 91, 123})

\* C9 as stated: once the separator and a start are found, the scan matches
\* exactly up to the last eligible character before the first stop condition,
\* every single quote counting as eligible.
C9_EndIsLastEligibleQuotesAlways ==
    /\ (Done /\ SepPresent /\ FindStart(Pre, trigger) # None)
          => LET e == LastEligibleEnd(Rest, FALSE)
             IN  IF e = None THEN result = NoMatch
                 ELSE /\ result.kind = "Some"
                      /\ result.end = trigger_index + SepLen + e[1]
    /\ SpanEndsProperly

\* C9 amended: the same, a single quote being eligible only when the single
\* quotes scanned up to and including it are even in number.
C9_EndIsLastEligible ==
    /\ (Done /\ SepPresent /\ FindStart(Pre, trigger) # None)
          => LET e == LastEligibleEnd(Rest, TRUE)
             IN  IF e = None THEN result = NoMatch
                 ELSE /\ result.kind = "Some"
                      /\ result.end = trigger_index + SepLen + e[1]
    /\ SpanEndsProperly

\* a match after which a run "./" was scanned and trimmed
C9_Witness ==
    /\ Matched
    /\ ~parent.set
    /\ Len(Rest) >= Len(SpanTail) + 2
    /\ Rest[Len(SpanTail) + 1] = 46
    /\ Rest[Len(SpanTail) + 2] = 47
    /\ StopPos(Rest) > Len(SpanTail) + 2

(***************************************************************************)
(* C10                                                                     *)
(***************************************************************************)

\* C10: scanning the extracted match again, with the trigger at its shifted
\* position, returns the whole extracted text.
C10_RescanReturnsWhole ==
    (pc = "done" /\ parent.set) => result = Range(0, ByteLen(text))

\* the extracted match was cut out of a longer text on both sides
C10_Witness ==
    /\ pc = "done"
    /\ parent.set
    /\ parent.result.start > 0
    /\ parent.result.end < ByteLen(parent.text)
    /\ result.kind = "Some"
====
